---- MODULE Spec2Model ----
(***************************************************************************)
(* ARIA Radiology Workbench backend (backend/main.py): the session store,  *)
(* the five tables of aria.db and the HTTP handlers over them.             *)
(*                                                                         *)
(* Every handler is one action.  The action's parameters are the request's *)
(* inputs; the values the handler draws (random module, uuid4, the clock)  *)
(* are chosen inside the action.  Each action records the call and its     *)
(* response in resp.                                                       *)
(*                                                                         *)
(* Modelling conventions                                                   *)
(*  - text that the code lower-cases or matches with LIKE is a sequence of *)
(*    one-character strings; other text is an atomic string;               *)
(*  - secrets.token_hex(32) and uuid.uuid4() draw 256 / 122 random bits:   *)
(*    a draw is taken to be a value never drawn before and never guessed   *)
(*    by a client, so tokens are numbered 1, 2, ... in order of issue and  *)
(*    the rows of a table 1, 2, ... in order of insertion; 0 stands for    *)
(*    any token or id that was never issued;                               *)
(*  - random.randint / random.choice / random.random draw any value of     *)
(*    their (bounded) range, collisions included;                          *)
(*  - timestamps are clock ticks; the "%Y-%m-%d %H:%M" strings the code    *)
(*    stores compare as the ticks do;                                      *)
(*  - columns that are written once and never read by a condition (phone,  *)
(*    allergies, alerts, infection_flags, ordering_location, the order's   *)
(*    indication/status/created_at, body_part, acquisition_time,           *)
(*    pacs_status, series_description, addenda) are left out.              *)
(***************************************************************************)
EXTENDS Integers, Sequences, FiniteSets, TLC

\* ------------------------------------------------------------------ bounds
MaxTokens   == 2    \* logins that succeed
MaxPatients == 2    \* rows of patients
MaxStudies  == 2    \* rows of studies (and of orders)
MaxReports  == 2    \* rows of reports
MaxTime     == 2    \* clock ticks 0..MaxTime

VARIABLES SESSIONS, issued, patients, orders, studies, series, reports, resp

tables == <<patients, orders, studies, series, reports>>
vars == <<SESSIONS, issued, patients, orders, studies, series, reports, resp>>

\* -------------------------------------------------------------------- text
UpperCase == <<"A","B","C","D","E","F","G","H","I","J","K","L","M",
               "N","O","P","Q","R","S","T","U","V","W","X","Y","Z">>
LowerCase == <<"a","b","c","d","e","f","g","h","i","j","k","l","m",
               "n","o","p","q","r","s","t","u","v","w","x","y","z">>

\* str.lower() on one character
LowerChar(c) ==
    IF \E i \in 1..26 : UpperCase[i] = c
    THEN LowerCase[CHOOSE i \in 1..26 : UpperCase[i] = c]
    ELSE c

\* str.lower()
lower(s) == [i \in 1..Len(s) |-> LowerChar(s[i])]

\* JSON null / Python None / SQL NULL in a text column
None == <<"None">>

\* x LIKE '%pat%': a case-insensitive substring match; NULL LIKE ... is not true
Like(x, pat) ==
    /\ x # None
    /\ \E i \in 0..(Len(x) - Len(pat)) :
          lower(SubSeq(x, i + 1, i + Len(pat))) = lower(pat)

\* dict.get(key, default) on a JSON object (a function from its keys)
Get(d, k, default) == IF k \in DOMAIN d THEN d[k] ELSE default

\* -------------------------------------------------------------------- auth
david    == <<"d","a","v","i","d">>
admin    == <<"a","d","m","i","n">>
radiolog == <<"r","a","d","i","o","l","o","g">>

\* hashlib.sha256(p.encode()).hexdigest(): collision-free on the passwords used
sha256(p) == <<"sha256", p>>

USERS == (david :> sha256("kings2024")) @@ (admin :> sha256("admin123"))
         @@ (radiolog :> sha256("radiology"))

\* login's test of the credentials (main.py line 82)
BadCredentialsLowerSkipped(username, password) ==
    username \notin DOMAIN USERS \/ USERS[username] # sha256(password)

BadCredentials(username, password) ==
    lower(username) \notin DOMAIN USERS \/ USERS[lower(username)] # sha256(password)

\* the name login stores and returns: req.username.lower()
SessionUsernameAsTyped(username) == username

SessionUsername(username) == lower(username)

\* SESSIONS[token] = username
SessionsPutSingle(S, token, username) == [t \in {token} |-> username]

SessionsPut(S, token, username) ==
    [t \in DOMAIN S \cup {token} |-> IF t = token THEN username ELSE S[t]]

\* SESSIONS.pop(token, None)
SessionsPop(S, token) == [t \in DOMAIN S \ {token} |-> S[t]]

\* verify_token: TRUE when it returns, FALSE when it raises 401
verify_token_open(token) == TRUE

verify_token(token) == token \in DOMAIN SESSIONS

\* the 401 every handler answers when verify_token raises
Unauthorised(op, token) ==
    /\ resp' = [op |-> op, token |-> token, status |-> 401, body |-> "Unauthorised"]
    /\ UNCHANGED <<SESSIONS, issued, tables>>

\* tokens a client can present: the ones issued so far, and 0 for any other string
ClientTokens == 0..issued

\* POST /auth/login
login(username, password) ==
    IF BadCredentials(username, password)
    THEN /\ resp' = [op |-> "login", username |-> username, password |-> password,
                     status |-> 401, body |-> "Invalid credentials"]
         /\ UNCHANGED <<SESSIONS, issued, tables>>
    ELSE /\ issued < MaxTokens
         /\ LET token == issued + 1 IN
            /\ issued' = token
            /\ SESSIONS' = SessionsPut(SESSIONS, token, SessionUsername(username))
            /\ resp' = [op |-> "login", username |-> username, password |-> password,
                        status |-> 200,
                        body |-> [token |-> token, username |-> SessionUsername(username)]]
         /\ UNCHANGED tables

\* what logout answers: pop with a default never raises
LogoutStatusDel(S, token) == IF token \in DOMAIN S THEN 200 ELSE 500

LogoutStatus(S, token) == 200

\* POST /auth/logout (found: whether the pop removed a mapping)
logout(token) ==
    /\ SESSIONS' = SessionsPop(SESSIONS, token)
    /\ resp' = [op |-> "logout", token |-> token, status |-> LogoutStatus(SESSIONS, token),
                found |-> token \in DOMAIN SESSIONS, body |-> "Logged out"]
    /\ UNCHANGED <<issued, tables>>

\* ---------------------------------------------------------------- database
\* str(uuid.uuid4()) as a primary key: the next row number of the table
NewId(table) == Cardinality(table) + 1

\* ids a client can put in a request: the ones in use, and 0 for any other string
ClientIds(table) == 0..Cardinality(table)

Times == 0..MaxTime

\* random_time(days_back): now moved back by days_back days and 0..12 hours
RandomTimeFrom(now, days_back) == {t \in Times : t <= now - days_back}

\* patients: patient_id TEXT PRIMARY KEY, mrn TEXT UNIQUE (a UNIQUE column admits
\* any number of NULLs)
PatientInsertFails(ps, row) ==
    \E p \in ps : \/ p.patient_id = row.patient_id
                  \/ (row.mrn # None /\ p.mrn = row.mrn)

\* ---------------------------------------------------------- data generation
Sarah == <<"S","a","r","a","h">>
James == <<"J","a","m","e","s">>
Smith == <<"S","m","i","t","h">>
DrPatel == <<"D","r",".","P">>

\* STUDY_TEMPLATES entries (modality, description, priority); the description is
\* cut to its first words
TemplateCTHead == [modality |-> "CT", description |-> <<"C","T"," ","H","e","a","d">>,
                   priority |-> "Urgent"]
TemplateCTAbdomen == [modality |-> "CT", description |-> <<"C","T"," ","A","b","d">>,
                      priority |-> "Emergency"]
TemplateMRIBrain == [modality |-> "MRI", description |-> <<"M","R","I"," ","B","r">>,
                     priority |-> "Routine"]

\* is_critical = random.random() < (critical_pct / 100)
CriticalDraws(critical_pct) ==
    {c \in BOOLEAN : (c => critical_pct > 0) /\ (~c => critical_pct < 100)}

\* the state generate_patients_and_studies works on: the open transaction's view
\* of the tables, its two counters, and whether an exception has ended it
GenStartFresh ==
    [patients |-> {}, orders |-> {}, studies |-> {}, series |-> {},
     reports |-> {}, patients_created |-> 0, studies_created |-> 0, err |-> FALSE]

GenStart ==
    [patients |-> patients, orders |-> orders, studies |-> studies, series |-> series,
     reports |-> reports, patients_created |-> 0, studies_created |-> 0, err |-> FALSE]

\* the series loop: series 1..n_series of study sid
SeriesRows(table, sid, n_series) ==
    {[series_id |-> Cardinality(table) + sn, study_id |-> sid, series_number |-> sn] :
        sn \in 1..n_series}

\* the report of a Preliminary or Final study
GenReportRows(st, sid, tmpl, is_critical, report_status, now) ==
    IF report_status \notin {"Preliminary", "Final"} THEN {{}}
    ELSE UNION {
           {{[report_id |-> NewId(st.reports), study_id |-> sid, author |-> DrPatel,
              created_at |-> c, updated_at |-> u,
              indication |-> "Query pathology", technique |-> tmpl.modality,
              findings |-> IF is_critical THEN "findings CRITICAL FINDING"
                           ELSE "findings",
              impression |-> "Findings as above.",
              sign_status |-> report_status]} :
              u \in {t \in RandomTimeFrom(now, 0) : t > c}}
           : c \in RandomTimeFrom(now, 1) }

\* one pass of the study loop for patient pid: an order, a study, its series and,
\* when reported, its report
GenOneStudy(st, pid, critical_pct, now, R) ==
    LET oid == NewId(st.orders)
        sid == NewId(st.studies)
    IN  UNION {
          { [st EXCEPT
               !.orders = @ \cup {[order_id |-> oid, patient_id |-> pid,
                                   ordering_clinician |-> DrPatel,
                                   priority |-> tmpl.priority]},
               !.studies = @ \cup {[study_id |-> sid, patient_id |-> pid, order_id |-> oid,
                                    modality |-> tmpl.modality,
                                    description |-> tmpl.description,
                                    scheduled_time |-> sched, accession |-> acc,
                                    report_status |-> report_status,
                                    critical_flag |-> IF is_critical THEN 1 ELSE 0]},
               !.series = @ \cup SeriesRows(st.series, sid, n_series),
               !.reports = @ \cup rep,
               !.studies_created = @ + 1]
            : rep \in GenReportRows(st, sid, tmpl, is_critical, report_status, now) }
          : tmpl \in R.templates,
            is_critical \in CriticalDraws(critical_pct) \cap R.criticals,
            report_status \in R.statuses,
            sched \in RandomTimeFrom(now, 0) \cap R.scheds,
            acc \in R.accessions,
            n_series \in R.nseries }

RECURSIVE GenStudies(_, _, _, _, _, _)
GenStudies(st, pid, k, critical_pct, now, R) ==
    IF k = 0 THEN {st}
    ELSE UNION { GenStudies(s2, pid, k - 1, critical_pct, now, R) :
                    s2 \in GenOneStudy(st, pid, critical_pct, now, R) }

\* one pass of the patient loop: a duplicate is skipped (except: continue);
\* random.randint(1, studies_per_patient) raises on an empty range
GenOnePatient(st, studies_per_patient, critical_pct, now, R) ==
    UNION {
      LET pid == NewId(st.patients)
          row == [patient_id |-> pid, mrn |-> mrn,
                  first_name |-> IF sex = "M" THEN James ELSE Sarah,
                  last_name |-> Smith, dob |-> "1980-01-01", sex |-> sex]
      IN  IF PatientInsertFails(st.patients, row) THEN {st}
          ELSE LET st1 == [st EXCEPT !.patients = @ \cup {row},
                                     !.patients_created = @ + 1]
               IN  IF studies_per_patient < 1 THEN {[st1 EXCEPT !.err = TRUE]}
                   ELSE UNION { GenStudies(st1, pid, n_studies, critical_pct, now, R) :
                                   n_studies \in 1..studies_per_patient }
      : mrn \in R.mrns, sex \in R.sexes }

RECURSIVE GenPatients(_, _, _, _, _, _)
GenPatients(st, n, studies_per_patient, critical_pct, now, R) ==
    IF n = 0 \/ st.err THEN {st}
    ELSE UNION { GenPatients(s2, n - 1, studies_per_patient, critical_pct, now, R) :
                    s2 \in GenOnePatient(st, studies_per_patient, critical_pct, now, R) }

\* generate_patients_and_studies: the committed result, or the exception
generate_patients_and_studies(n_patients, studies_per_patient, critical_pct, now, R) ==
    GenPatients(GenStart, n_patients, studies_per_patient, critical_pct, now, R)

WithinBounds(st) ==
    /\ Cardinality(st.patients) <= MaxPatients
    /\ Cardinality(st.studies) <= MaxStudies
    /\ Cardinality(st.reports) <= MaxReports

\* POST /api/generate
generate_data(token, n_patients, studies_per_patient, critical_pct, now, R) ==
    IF ~verify_token(token) THEN Unauthorised("generate", token)
    ELSE /\ Cardinality(patients) + n_patients <= MaxPatients
         /\ Cardinality(studies) + n_patients * studies_per_patient <= MaxStudies
         /\ \E out \in generate_patients_and_studies(n_patients, studies_per_patient,
                                                     critical_pct, now, R) :
           /\ WithinBounds(out)
           /\ IF out.err
              THEN /\ resp' = [op |-> "generate", token |-> token, status |-> 500,
                               body |-> "Internal Server Error"]
                   /\ UNCHANGED tables
              ELSE /\ patients' = out.patients
                   /\ orders' = out.orders
                   /\ studies' = out.studies
                   /\ series' = out.series
                   /\ reports' = out.reports
                   /\ resp' = [op |-> "generate", token |-> token, status |-> 200,
                               n_patients |-> n_patients,
                               before |-> Cardinality(patients),
                               body |-> [patients |-> out.patients_created,
                                         studies |-> out.studies_created]]
           /\ UNCHANGED <<SESSIONS, issued>>

\* ---------------------------------------------------------------- ordering
\* the sequences that list the rows of S once each with no pair out of order,
\* before being the pairs <<a, b>> of rows the ORDER BY puts a ahead of b in:
\* what the query may return (rows that compare equal come in any order)
Ordered(S, before) ==
    LET n == Cardinality(S) IN
    {q \in [1..n -> S] :
        /\ \A i, j \in 1..n : i # j => q[i] # q[j]
        /\ \A i, j \in 1..n : i < j => <<q[j], q[i]>> \notin before}

\* LIMIT limit OFFSET offset (a negative limit is no limit, a negative offset 0)
Page(q, limit, offset) ==
    LET off  == IF offset < 0 THEN 0 ELSE offset
        rest == SubSeq(q, off + 1, Len(q))
    IN  IF limit < 0 \/ limit >= Len(rest) THEN rest ELSE SubSeq(rest, 1, limit)

\* a || ' ' || b
ConcatName(a, b) == IF a = None \/ b = None THEN None ELSE a \o <<" ">> \o b

\* ---------------------------------------------------------------- worklist
\* studies s JOIN patients p JOIN orders o, the columns the queries select
StudyJoin ==
    {[study_id |-> s.study_id, modality |-> s.modality, description |-> s.description,
      scheduled_time |-> s.scheduled_time, accession |-> s.accession,
      report_status |-> s.report_status, critical_flag |-> s.critical_flag,
      first_name |-> p.first_name, last_name |-> p.last_name, mrn |-> p.mrn,
      dob |-> p.dob, sex |-> p.sex,
      priority |-> o.priority, ordering_clinician |-> o.ordering_clinician] :
      <<s, p, o>> \in {x \in studies \X patients \X orders :
                          /\ x[1].patient_id = x[2].patient_id
                          /\ x[1].order_id = x[3].order_id}}

\* CASE o.priority WHEN 'Emergency' THEN 0 WHEN 'Urgent' THEN 1 ELSE 2 END
PriorityRank(priority) ==
    IF priority = "Emergency" THEN 0 ELSE IF priority = "Urgent" THEN 1 ELSE 2

\* ORDER BY s.critical_flag DESC, CASE o.priority ... END, s.scheduled_time DESC
WorklistBeforeTimeAscending(a, b) ==
    \/ a.critical_flag > b.critical_flag
    \/ /\ a.critical_flag = b.critical_flag
       /\ \/ PriorityRank(a.priority) < PriorityRank(b.priority)
          \/ /\ PriorityRank(a.priority) = PriorityRank(b.priority)
             /\ a.scheduled_time < b.scheduled_time

WorklistBefore(a, b) ==
    \/ a.critical_flag > b.critical_flag
    \/ /\ a.critical_flag = b.critical_flag
       /\ \/ PriorityRank(a.priority) < PriorityRank(b.priority)
          \/ /\ PriorityRank(a.priority) = PriorityRank(b.priority)
             /\ a.scheduled_time > b.scheduled_time

\* the WHERE clause worklist builds from its filters
WorklistMatches(r, modality, status, priority, search) ==
    /\ modality # "" => r.modality = modality
    /\ status # "" => r.report_status = status
    /\ priority # "" => r.priority = priority
    /\ search # <<>> => \/ Like(ConcatName(r.first_name, r.last_name), search)
                        \/ Like(r.mrn, search)
                        \/ Like(r.description, search)

\* GET /api/worklist
worklist(token, modality, status, priority, search, limit, offset) ==
    IF ~verify_token(token) THEN Unauthorised("worklist", token)
    ELSE /\ LET hits == {r \in StudyJoin :
                            WorklistMatches(r, modality, status, priority, search)}
            IN  \E q \in Ordered(hits, {x \in hits \X hits : WorklistBefore(x[1], x[2])}) :
              LET rows == Page(q, limit, offset) IN
              resp' = [op |-> "worklist", token |-> token, status |-> 200,
                       body |-> [studies |-> rows, total |-> Len(rows)]]
         /\ UNCHANGED <<SESSIONS, issued, tables>>

\* GET /api/patient/{patient_id}
get_patient(patient_id, token) ==
    IF ~verify_token(token) THEN Unauthorised("get_patient", token)
    ELSE /\ IF \E p \in patients : p.patient_id = patient_id
            THEN resp' = [op |-> "get_patient", token |-> token, status |-> 200,
                          body |-> CHOOSE p \in patients : p.patient_id = patient_id]
            ELSE resp' = [op |-> "get_patient", token |-> token, status |-> 404,
                          body |-> "Patient not found"]
         /\ UNCHANGED <<SESSIONS, issued, tables>>

\* ------------------------------------------------------------------- study
\* ORDER BY series_number
SeriesBefore(a, b) == a.series_number < b.series_number

\* ORDER BY created_at DESC
ReportBeforeOldestFirst(a, b) == a.created_at < b.created_at

ReportBefore(a, b) == a.created_at > b.created_at

\* GET /api/study/{study_id}: the joined study row is looked up, then the series
\* and the first report in created_at DESC order; 404 when the join has no row
get_study(study_id, token) ==
    IF ~verify_token(token) THEN Unauthorised("get_study", token)
    ELSE /\ LET s == {r \in StudyJoin : r.study_id = study_id} IN
            IF s = {}
            THEN resp' = [op |-> "get_study", token |-> token, status |-> 404,
                          study_id |-> study_id, body |-> "Study not found"]
            ELSE LET ss == {x \in series : x.study_id = study_id}
                     rs == {x \in reports : x.study_id = study_id}
                 IN
                 \E ser \in Ordered(ss, {x \in ss \X ss : SeriesBefore(x[1], x[2])}),
                    rep \in Ordered(rs, {x \in rs \X rs : ReportBefore(x[1], x[2])}) :
                    resp' = [op |-> "get_study", token |-> token, status |-> 200,
                             study_id |-> study_id,
                             body |-> [study |-> CHOOSE r \in s : TRUE,
                                       series |-> ser,
                                       report |-> IF rep = <<>> THEN <<>> ELSE <<rep[1]>>]]
         /\ UNCHANGED <<SESSIONS, issued, tables>>

\* ----------------------------------------------------------------- reports
\* the row create_report inserts
NewReportSignStatusKept(rid, data, username, now) ==
    [report_id |-> rid, study_id |-> data["study_id"], author |-> username,
     created_at |-> now, updated_at |-> now,
     indication |-> Get(data, "indication", ""),
     technique |-> Get(data, "technique", ""),
     findings |-> Get(data, "findings", ""),
     impression |-> Get(data, "impression", ""),
     sign_status |-> Get(data, "sign_status", "")]

NewReport(rid, data, username, now) ==
    [report_id |-> rid, study_id |-> data["study_id"], author |-> username,
     created_at |-> now, updated_at |-> now,
     indication |-> Get(data, "indication", ""),
     technique |-> Get(data, "technique", ""),
     findings |-> Get(data, "findings", ""),
     impression |-> Get(data, "impression", ""),
     sign_status |-> Get(data, "sign_status", "Draft")]

\* POST /api/report: data["study_id"] raises KeyError when the key is missing
create_report(data, token, now) ==
    IF ~verify_token(token) THEN Unauthorised("create_report", token)
    ELSE IF token \notin DOMAIN SESSIONS \/ "study_id" \notin DOMAIN data
    THEN /\ resp' = [op |-> "create_report", token |-> token, status |-> 500,
                     data |-> data, now |-> now, body |-> "Internal Server Error"]
         /\ UNCHANGED <<SESSIONS, issued, tables>>
    ELSE /\ Cardinality(reports) < MaxReports
         /\ LET rid == NewId(reports) IN
            /\ reports' = reports \cup {NewReport(rid, data, SESSIONS[token], now)}
            /\ resp' = [op |-> "create_report", token |-> token, status |-> 200,
                        data |-> data, now |-> now,
                        body |-> [report_id |-> rid, message |-> "Report saved"]]
         /\ UNCHANGED <<SESSIONS, issued, patients, orders, studies, series>>

\* ORDER BY r.updated_at DESC
ReportsListBefore(a, b) == a.updated_at > b.updated_at

\* reports r JOIN studies s JOIN patients p, r.* and the columns selected
ReportJoin ==
    {[report_id |-> x[1].report_id, study_id |-> x[1].study_id,
      author |-> x[1].author, created_at |-> x[1].created_at,
      updated_at |-> x[1].updated_at, indication |-> x[1].indication,
      technique |-> x[1].technique, findings |-> x[1].findings,
      impression |-> x[1].impression, sign_status |-> x[1].sign_status,
      first_name |-> x[3].first_name, last_name |-> x[3].last_name,
      mrn |-> x[3].mrn, modality |-> x[2].modality,
      accession |-> x[2].accession] :
      x \in {y \in reports \X studies \X patients :
                /\ y[1].study_id = y[2].study_id
                /\ y[2].patient_id = y[3].patient_id}}

\* GET /api/reports
get_reports(token) ==
    IF ~verify_token(token) THEN Unauthorised("get_reports", token)
    ELSE /\ \E q \in Ordered(ReportJoin, {x \in ReportJoin \X ReportJoin :
                                             ReportsListBefore(x[1], x[2])}) :
              resp' = [op |-> "get_reports", token |-> token, status |-> 200,
                       body |-> [reports |-> q]]
         /\ UNCHANGED <<SESSIONS, issued, tables>>

\* UPDATE reports SET indication=?, technique=?, findings=?, impression=?,
\* sign_status=?, updated_at=? WHERE report_id=?
UpdatedReportsAllRows(table, report_id, data, now) ==
    {[r EXCEPT !.indication = Get(data, "indication", ""),
               !.technique = Get(data, "technique", ""),
               !.findings = Get(data, "findings", ""),
               !.impression = Get(data, "impression", ""),
               !.sign_status = Get(data, "sign_status", "Draft"),
               !.updated_at = now] : r \in table}

UpdatedReports(table, report_id, data, now) ==
    {IF r.report_id = report_id
     THEN [r EXCEPT !.indication = Get(data, "indication", ""),
                    !.technique = Get(data, "technique", ""),
                    !.findings = Get(data, "findings", ""),
                    !.impression = Get(data, "impression", ""),
                    !.sign_status = Get(data, "sign_status", "Draft"),
                    !.updated_at = now]
     ELSE r : r \in table}

\* PUT /api/report/{report_id}
update_report(report_id, data, token, now) ==
    IF ~verify_token(token) THEN Unauthorised("update_report", token)
    ELSE /\ reports' = UpdatedReports(reports, report_id, data, now)
         /\ resp' = [op |-> "update_report", token |-> token, status |-> 200,
                     report_id |-> report_id, data |-> data, now |-> now,
                     body |-> [message |-> "Report updated"]]
         /\ UNCHANGED <<SESSIONS, issued, patients, orders, studies, series>>

\* ----------------------------------------------------------- export, import
\* a JSON or CSV document as the import reads it: kind "unparseable" (json.loads
\* or decode raises), "scalar" (a value that cannot be iterated) or "list" with
\* its items, each a dict (obj, a function from its keys) or some other value
Item(obj) == [dict |-> TRUE, obj |-> obj]
NotADict == [dict |-> FALSE, obj |-> <<>>]
Document(kind, rows) == [kind |-> kind, rows |-> rows]

\* the columns export_data selects from the join
ExportRow(r) ==
    [mrn |-> r.mrn, first_name |-> r.first_name, last_name |-> r.last_name,
     dob |-> r.dob, sex |-> r.sex, modality |-> r.modality,
     description |-> r.description, scheduled_time |-> r.scheduled_time,
     report_status |-> r.report_status, critical_flag |-> r.critical_flag,
     priority |-> r.priority, ordering_clinician |-> r.ordering_clinician]

\* ORDER BY s.scheduled_time DESC
ExportBefore(a, b) == a.scheduled_time > b.scheduled_time

\* csv.DictWriter writes str(value), None as the empty string
CsvRow(r) ==
    [r EXCEPT !.critical_flag = IF @ = 1 THEN "1" ELSE "0",
              !.mrn = IF @ = None THEN <<>> ELSE @]

\* the documents a client can read back from the body of an export
ExportDocs(fmt) ==
    {Document("list", [i \in 1..Len(q) |->
                         Item(IF fmt = "csv" THEN CsvRow(ExportRow(q[i]))
                              ELSE ExportRow(q[i]))]) :
        q \in Ordered(StudyJoin, {x \in StudyJoin \X StudyJoin :
                                     ExportBefore(x[1], x[2])})}

\* GET /api/export
export_data(token, fmt) ==
    IF ~verify_token(token) THEN Unauthorised("export", token)
    ELSE /\ \E doc \in ExportDocs(fmt) :
              resp' = [op |-> "export", token |-> token, status |-> 200, fmt |-> fmt,
                       body |-> doc]
         /\ UNCHANGED <<SESSIONS, issued, tables>>

Unknown == <<"U","n","k","n","o","w","n">>

\* one pass of import_data's row loop; row.get raises on a row that is no dict
\* (outside the inner try), a failed INSERT is passed over
ImportOneRow(st, item, R) ==
    IF ~item.dict THEN {[st EXCEPT !.err = TRUE]}
    ELSE UNION {
           LET row == [patient_id |-> NewId(st.patients), mrn |-> mrn,
                       first_name |-> Get(item.obj, "first_name", Unknown),
                       last_name |-> Get(item.obj, "last_name", Unknown),
                       dob |-> Get(item.obj, "dob", "1970-01-01"),
                       sex |-> Get(item.obj, "sex", "U")]
           IN  IF PatientInsertFails(st.patients, row) THEN {st}
               ELSE {[st EXCEPT !.patients = @ \cup {row}, !.imported = @ + 1]}
           : mrn \in IF "mrn" \in DOMAIN item.obj THEN {item.obj["mrn"]} ELSE R.mrns }

RECURSIVE ImportRows(_, _, _, _)
ImportRows(st, rows, i, R) ==
    IF i > Len(rows) \/ st.err THEN {st}
    ELSE UNION { ImportRows(s2, rows, i + 1, R) : s2 \in ImportOneRow(st, rows[i], R) }

\* the try block of import_data: parse, then the row loop
ImportOutcomes(table, doc, R) ==
    LET start == [patients |-> table, imported |-> 0, err |-> FALSE] IN
    IF doc.kind # "list" THEN {[start EXCEPT !.err = TRUE]}
    ELSE ImportRows(start, doc.rows, 1, R)

\* finally: db.close() on a connection with uncommitted INSERTs rolls them back
ClosedCommitting(committed, pending) == pending

Closed(committed, pending) == committed

\* POST /api/import: commit at the end of the loop; an exception answers 400 and
\* the connection is closed without a commit.  A file whose name does not end
\* in .json goes through csv.DictReader, which yields a list of dicts or fails
import_data(token, filename_json, doc, R) ==
    IF ~verify_token(token) THEN Unauthorised("import", token)
    ELSE /\ filename_json
            \/ /\ doc.kind \in {"list", "unparseable"}
               /\ \A i \in 1..Len(doc.rows) : doc.rows[i].dict
         /\ \E out \in ImportOutcomes(patients, doc, R) :
            /\ Cardinality(out.patients) <= MaxPatients
            /\ IF out.err
               THEN /\ resp' = [op |-> "import", token |-> token, status |-> 400,
                                doc |-> doc, body |-> "Import failed"]
                    /\ patients' = Closed(patients, out.patients)
               ELSE /\ patients' = out.patients
                    /\ resp' = [op |-> "import", token |-> token, status |-> 200,
                                doc |-> doc, before |-> Cardinality(patients),
                                body |-> [imported |-> out.imported]]
         /\ UNCHANGED <<SESSIONS, issued, orders, studies, series, reports>>

\* ------------------------------------------------------------------- stats
\* GET /api/stats
get_stats(token) ==
    IF ~verify_token(token) THEN Unauthorised("stats", token)
    ELSE /\ resp' = [op |-> "stats", token |-> token, status |-> 200,
                     body |-> [total |-> Cardinality(studies),
                               critical |-> Cardinality({s \in studies :
                                                           s.critical_flag = 1}),
                               unreported |-> Cardinality({s \in studies :
                                                   s.report_status = "Unreported"}),
                               patients |-> Cardinality(patients),
                               modalities |->
                                 [m \in {s.modality : s \in studies} |->
                                    Cardinality({s \in studies : s.modality = m})]]]
         /\ UNCHANGED <<SESSIONS, issued, tables>>

\* ---------------------------------------------------------------- AI proxy
\* the four /api/aria/* handlers: the token check, then one call of the provider,
\* which answers (provider_ok) or raises
aria_query(token, provider_ok) ==
    IF ~verify_token(token) THEN Unauthorised("aria_query", token)
    ELSE /\ resp' = [op |-> "aria_query", token |-> token, status |-> 200,
                     body |-> IF provider_ok THEN "response"
                              ELSE "ARIA is temporarily unavailable"]
         /\ UNCHANGED <<SESSIONS, issued, tables>>

aria_assist_report(token, provider_ok) ==
    IF ~verify_token(token) THEN Unauthorised("aria_assist_report", token)
    ELSE /\ resp' = [op |-> "aria_assist_report", token |-> token,
                     status |-> IF provider_ok THEN 200 ELSE 500,
                     body |-> IF provider_ok THEN "suggestion" ELSE "error"]
         /\ UNCHANGED <<SESSIONS, issued, tables>>

aria_transcribe(token, provider_ok) ==
    IF ~verify_token(token) THEN Unauthorised("aria_transcribe", token)
    ELSE /\ resp' = [op |-> "aria_transcribe", token |-> token,
                     status |-> IF provider_ok THEN 200 ELSE 500,
                     body |-> IF provider_ok THEN "transcript" ELSE "error"]
         /\ UNCHANGED <<SESSIONS, issued, tables>>

aria_speak(token, provider_ok) ==
    IF ~verify_token(token) THEN Unauthorised("aria_speak", token)
    ELSE /\ resp' = [op |-> "aria_speak", token |-> token,
                     status |-> IF provider_ok THEN 200 ELSE 500,
                     body |-> IF provider_ok THEN "audio" ELSE "error"]
         /\ UNCHANGED <<SESSIONS, issued, tables>>

\* -------------------------------------------------------------------- init
NoCall == [op |-> "none", token |-> 0, status |-> 0, body |-> "none"]

Init ==
    /\ SESSIONS = <<>>
    /\ issued = 0
    /\ patients = {}
    /\ orders = {}
    /\ studies = {}
    /\ series = {}
    /\ reports = {}
    /\ resp = NoCall

\* ------------------------------------------------------ requests and draws
KCH1 == <<"K","C","H","1">>
KCH2 == <<"K","C","H","2">>
David == <<"D","a","v","i","d">>
eve == <<"e","v","e">>

\* what the random module draws from: one shape of study, no report
DrawsPlain ==
    [mrns |-> {KCH1}, sexes |-> {"F"}, templates |-> {TemplateCTHead},
     criticals |-> {FALSE}, statuses |-> {"Unreported"}, scheds |-> {0},
     accessions |-> {1}, nseries |-> {1}]

\* studies of two series, with and without a report
DrawsReports ==
    [mrns |-> {KCH1}, sexes |-> {"F"}, templates |-> {TemplateCTHead},
     criticals |-> {FALSE}, statuses |-> {"Unreported", "Final"}, scheds |-> {0},
     accessions |-> {1}, nseries |-> {2}]

\* studies that differ in what the worklist filters and orders by
DrawsWorklist ==
    [mrns |-> {KCH1}, sexes |-> {"F"},
     templates |-> {TemplateCTHead, TemplateCTAbdomen, TemplateMRIBrain},
     criticals |-> BOOLEAN, statuses |-> {"Unreported"}, scheds |-> {0, 1},
     accessions |-> {1}, nseries |-> {1}]

\* patients that differ in MRN, studies that may differ in accession number
DrawsBatch ==
    [mrns |-> {KCH1, KCH2}, sexes |-> {"M", "F"}, templates |-> {TemplateCTHead},
     criticals |-> {FALSE}, statuses |-> {"Unreported"}, scheds |-> {0},
     accessions |-> {1, 2}, nseries |-> {1}]

\* report bodies: nothing but the study, and every field given
ReportBare(study_id) == ("study_id" :> study_id)
ReportFull(study_id) ==
    ("study_id" :> study_id) @@ ("indication" :> "i") @@ ("technique" :> "t")
       @@ ("findings" :> "f") @@ ("impression" :> "m") @@ ("sign_status" :> "Final")

\* uploaded rows: an empty dict, a row with an MRN, a row whose MRN is null
RowEmpty == Item(<<>>)
RowKCH1 == Item(("mrn" :> KCH1) @@ ("first_name" :> Sarah))
RowNullMrn == Item(("mrn" :> None))

\* the document of the last response when that was an export
LastExport == IF resp.op = "export" /\ resp.status = 200 THEN {resp.body} ELSE {}

\* ------------------------------------------------------------ specification
\* every operation, with one shape of study and the full choice of credentials
Next ==
    \/ \E u \in {david, David, admin, eve}, p \in {"kings2024", "admin123"} : login(u, p)
    \/ \E t \in ClientTokens : logout(t)
    \/ \E t \in ClientTokens : worklist(t, "", "", "", <<>>, 100, 0)
    \/ \E t \in ClientTokens : get_patient(1, t)
    \/ \E t \in ClientTokens : get_study(1, t)
    \/ \E t \in ClientTokens : create_report(ReportBare(1), t, 1)
    \/ \E t \in ClientTokens : get_reports(t)
    \/ \E t \in ClientTokens : update_report(1, ReportFull(1), t, 2)
    \/ \E t \in ClientTokens : generate_data(t, 1, 1, 15, 1, DrawsPlain)
    \/ \E t \in ClientTokens : export_data(t, "json")
    \/ \E t \in ClientTokens : import_data(t, TRUE, Document("list", <<RowKCH1>>), DrawsPlain)
    \/ \E t \in ClientTokens, ok \in BOOLEAN : aria_query(t, ok)
    \/ \E t \in ClientTokens, ok \in BOOLEAN : aria_assist_report(t, ok)
    \/ \E t \in ClientTokens, ok \in BOOLEAN : aria_transcribe(t, ok)
    \/ \E t \in ClientTokens, ok \in BOOLEAN : aria_speak(t, ok)
    \/ \E t \in ClientTokens : get_stats(t)

Spec == Init /\ [][Next]_vars

\* the report operations over studies with and without a report
NextReports ==
    \/ login(david, "kings2024")
    \/ \E t \in ClientTokens, spp \in 1..2 :
          generate_data(t, 1, spp, 15, 1, DrawsReports)
    \/ \E t \in ClientTokens, id \in ClientIds(studies) : get_study(id, t)
    \/ \E t \in ClientTokens, id \in 0..1, now \in 1..MaxTime :
          \E d \in {ReportBare(id), ReportFull(id), ("findings" :> "f")} :
             create_report(d, t, now)
    \/ \E t \in ClientTokens, id \in ClientIds(reports) :
          \E d \in {<<>>, ReportFull(0)} : update_report(id, d, t, MaxTime)
    \/ \E t \in ClientTokens : get_reports(t)

SpecReports == Init /\ [][NextReports]_vars

\* worklist queries: no filter, each filter alone, all filters at once
WorklistFilters ==
    { <<"", "", "", <<>>>>, <<"CT", "", "", <<>>>>, <<"", "Unreported", "", <<>>>>,
      <<"", "", "Urgent", <<>>>>, <<"", "", "", <<"h","E">>>>,
      <<"CT", "Unreported", "Emergency", <<"c","t">>>> }
WorklistPages == { <<100, 0>>, <<-1, 1>>, <<1, 0>> }

\* the worklist over studies of every flag, priority and time (an imported
\* patient has no study and is in no row of the join)
NextWorklist ==
    \/ login(david, "kings2024")
    \/ \E t \in ClientTokens, spp \in 1..2 :
          generate_data(t, 1, spp, 15, 1, DrawsWorklist)
    \/ \E t \in ClientTokens, f \in WorklistFilters, pg \in WorklistPages :
          worklist(t, f[1], f[2], f[3], f[4], pg[1], pg[2])

SpecWorklist == Init /\ [][NextWorklist]_vars

\* generation, export and import over patients that share MRNs
NextBatch ==
    \/ login(david, "kings2024")
    \/ \E t \in ClientTokens, n \in 0..2, spp \in 0..1 :
          generate_data(t, n, spp, 15, 1, DrawsBatch)
    \/ \E t \in ClientTokens, fmt \in {"json", "csv"} : export_data(t, fmt)
    \/ \E t \in ClientTokens, json \in BOOLEAN :
          \E doc \in {Document("list", <<RowKCH1, RowEmpty>>),
                      Document("list", <<RowNullMrn, RowNullMrn>>),
                      Document("list", <<RowEmpty, NotADict>>),
                      Document("unparseable", <<>>), Document("scalar", <<>>)}
                     \cup LastExport :
             import_data(t, json, doc, DrawsBatch)

SpecBatch == Init /\ [][NextBatch]_vars

\* ================================================================== claims
ApiOps == {"worklist", "get_patient", "get_study", "create_report", "update_report",
           "get_reports", "generate", "export", "import", "stats",
           "aria_query", "aria_assist_report", "aria_transcribe", "aria_speak"}

\* C1: a call of any /api/* operation with a token that is not in the session
\* store answers 401 and changes neither the session store nor any table.
C1_UnknownTokenRejected ==
    [][ (resp'.op \in ApiOps /\ resp'.token \notin DOMAIN SESSIONS)
          => /\ resp'.status = 401
             /\ SESSIONS' = SESSIONS
             /\ tables' = tables ]_vars

\* a logged-out token was refused on a database that holds rows, while another
\* session is open
C1_Witness ==
    /\ resp.op = "import" /\ resp.status = 401
    /\ resp.token > 0 /\ resp.token \notin DOMAIN SESSIONS
    /\ DOMAIN SESSIONS # {}
    /\ patients # {} /\ reports # {}

\* C2: login succeeds exactly when the lower-cased username is in the credential
\* table with the hash of the password; it then adds one mapping from a token that
\* was not in the store to the lower-cased username and keeps every other mapping;
\* otherwise it answers 401 and the store is unchanged.
C2_Login ==
    [][ resp'.op = "login" =>
          LET u  == lower(resp'.username)
              ok == <<u, resp'.password>> \in {<<david, "kings2024">>,
                                               <<admin, "admin123">>,
                                               <<radiolog, "radiology">>}
          IN  IF ok
              THEN /\ resp'.status = 200
                   /\ resp'.body.token \notin DOMAIN SESSIONS
                   /\ DOMAIN SESSIONS' = DOMAIN SESSIONS \cup {resp'.body.token}
                   /\ SESSIONS'[resp'.body.token] = u
                   /\ \A t \in DOMAIN SESSIONS : SESSIONS'[t] = SESSIONS[t]
              ELSE /\ resp'.status = 401
                   /\ SESSIONS' = SESSIONS ]_vars

\* a mixed-case username was logged in beside an earlier session
C2_Witness ==
    /\ resp.op = "login" /\ resp.status = 200
    /\ resp.username # lower(resp.username)
    /\ Cardinality(DOMAIN SESSIONS) = 2
    /\ SESSIONS[resp.body.token] = david

\* C3: logout of any token, in the store or not, answers success, leaves the token
\* absent and every other mapping as it was; a logout of a token that is already
\* absent (a second logout) leaves the store exactly as it was.
C3_LogoutIdempotent ==
    [][ resp'.op = "logout" =>
          /\ resp'.status = 200
          /\ DOMAIN SESSIONS' = DOMAIN SESSIONS \ {resp'.token}
          /\ \A t \in DOMAIN SESSIONS' : SESSIONS'[t] = SESSIONS[t]
          /\ (resp'.token \notin DOMAIN SESSIONS => SESSIONS' = SESSIONS) ]_vars

\* an issued token was logged out again after its logout, another session open
C3_Witness ==
    /\ resp.op = "logout" /\ resp.status = 200 /\ ~resp.found
    /\ resp.token \in 1..issued
    /\ DOMAIN SESSIONS # {}

\* C4: the rows of a worklist response have every critical study before every
\* other, within equal flag the priority ranks Emergency 0, Urgent 1, other 2 in
\* ascending order, and within equal flag and rank scheduled_time descending.
C4_WorklistOrder ==
    (resp.op = "worklist" /\ resp.status = 200) =>
        LET rows == resp.body.studies IN
        \A i, j \in 1..Len(rows) : i < j =>
            /\ ~(rows[i].critical_flag = 0 /\ rows[j].critical_flag = 1)
            /\ rows[i].critical_flag = rows[j].critical_flag =>
                 /\ PriorityRank(rows[i].priority) <= PriorityRank(rows[j].priority)
                 /\ PriorityRank(rows[i].priority) = PriorityRank(rows[j].priority)
                      => rows[i].scheduled_time >= rows[j].scheduled_time

\* a response whose first row is critical and Routine and whose second is not
\* critical and Emergency
C4_Witness ==
    /\ resp.op = "worklist" /\ resp.status = 200
    /\ Len(resp.body.studies) = 2
    /\ resp.body.studies[1].critical_flag = 1
    /\ resp.body.studies[1].priority = "Routine"
    /\ resp.body.studies[2].critical_flag = 0
    /\ resp.body.studies[2].priority = "Emergency"

\* C5: no two patient rows have the same MRN, and the count a generation or an
\* import returns is the number of patient rows it inserted.
C5_MrnUnique ==
    /\ \A p, q \in patients : p.patient_id # q.patient_id => p.mrn # q.mrn
    /\ (resp.op \in {"generate", "import"} /\ resp.status = 200) =>
          Cardinality(patients) - resp.before
             = IF resp.op = "generate" THEN resp.body.patients ELSE resp.body.imported

\* C6: every order and study references an existing patient, every study an
\* existing order, every series and report an existing study.
C6_ReferentialIntegrity ==
    /\ \A o \in orders : \E p \in patients : p.patient_id = o.patient_id
    /\ \A s \in studies : /\ \E p \in patients : p.patient_id = s.patient_id
                          /\ \E o \in orders : o.order_id = s.order_id
    /\ \A x \in series : \E s \in studies : s.study_id = x.study_id
    /\ \A r \in reports : \E s \in studies : s.study_id = r.study_id

\* C7: importing the JSON export of the database (into an empty patients table)
\* inserts as many patients as the exported database holds.
C7_RoundTripCount ==
    \A doc \in ExportDocs("json") :
        \A out \in ImportOutcomes({}, doc, DrawsBatch) :
            ~out.err /\ out.imported = Cardinality(patients)

\* C8: update report with a valid token answers success; with a report_id of no
\* row it changes no table; with the id of a row it overwrites the five fields of
\* that row (omitted ones with "" and "Draft"), sets its updated_at to now and
\* keeps its other columns and every other row.
C8_UpdateReport ==
    [][ (resp'.op = "update_report" /\ resp'.token \in DOMAIN SESSIONS) =>
          LET id == resp'.report_id
              d  == resp'.data
          IN  /\ resp'.status = 200
              /\ UNCHANGED <<patients, orders, studies, series>>
              /\ (\A r \in reports : r.report_id # id) => reports' = reports
              /\ Cardinality(reports') = Cardinality(reports)
              /\ \A r \in reports :
                    IF r.report_id # id THEN r \in reports'
                    ELSE [report_id |-> id, study_id |-> r.study_id,
                          author |-> r.author, created_at |-> r.created_at,
                          updated_at |-> resp'.now,
                          indication |-> Get(d, "indication", ""),
                          technique |-> Get(d, "technique", ""),
                          findings |-> Get(d, "findings", ""),
                          impression |-> Get(d, "impression", ""),
                          sign_status |-> Get(d, "sign_status", "Draft")]
                         \in reports' ]_vars

\* an update of an id of no row answered success, beside a generated report that
\* an earlier update with an empty body has overwritten and a report left alone
C8_Witness ==
    /\ resp.op = "update_report" /\ resp.status = 200
    /\ \A r \in reports : r.report_id # resp.report_id
    /\ \E r \in reports : /\ r.author = DrPatel /\ r.sign_status = "Draft"
                          /\ r.findings = "" /\ r.updated_at > r.created_at
    /\ \E r \in reports : r.findings = "f" /\ r.updated_at = r.created_at

\* C9: create report with a valid token and a study_id adds exactly one row, with
\* an id not in use, the token's username as author, created_at = updated_at,
\* omitted narrative fields "" and omitted sign_status "Draft", and keeps the
\* reports the study already has.
C9_CreateReport ==
    [][ (resp'.op = "create_report" /\ resp'.token \in DOMAIN SESSIONS
         /\ "study_id" \in DOMAIN resp'.data) =>
          LET d == resp'.data IN
          /\ resp'.status = 200
          /\ reports \subseteq reports'
          /\ Cardinality(reports') = Cardinality(reports) + 1
          /\ \A r \in reports' \ reports :
                /\ r.report_id = resp'.body.report_id
                /\ \A x \in reports : x.report_id # r.report_id
                /\ r.study_id = d["study_id"]
                /\ r.author = SESSIONS[resp'.token]
                /\ r.created_at = r.updated_at
                /\ r.indication = (IF "indication" \in DOMAIN d THEN d["indication"] ELSE "")
                /\ r.technique = (IF "technique" \in DOMAIN d THEN d["technique"] ELSE "")
                /\ r.findings = (IF "findings" \in DOMAIN d THEN d["findings"] ELSE "")
                /\ r.impression = (IF "impression" \in DOMAIN d THEN d["impression"] ELSE "")
                /\ r.sign_status = (IF "sign_status" \in DOMAIN d THEN d["sign_status"]
                                    ELSE "Draft") ]_vars

\* a report with nothing but the study_id was added to a study that had a report
C9_Witness ==
    /\ resp.op = "create_report" /\ resp.status = 200
    /\ DOMAIN resp.data = {"study_id"}
    /\ \E s \in studies : s.study_id = resp.data["study_id"]
    /\ \E r, x \in reports :
          /\ r.report_id = resp.body.report_id /\ x.report_id # r.report_id
          /\ x.study_id = r.study_id
          /\ r.sign_status = "Draft" /\ r.findings = "" /\ r.author = david

\* C10: get study with a valid token answers 404 exactly when no study row has the
\* id; otherwise it returns all series of the study in ascending series_number
\* order and a report of the study with the latest created_at, or none exactly
\* when the study has no report.
C10_GetStudy ==
    (resp.op = "get_study" /\ resp.status # 401) =>
        LET id  == resp.study_id
            ser == {x \in series : x.study_id = id}
            rep == {x \in reports : x.study_id = id}
        IN  /\ resp.status = 404 <=> (\A s \in studies : s.study_id # id)
            /\ resp.status # 404 =>
                 /\ resp.status = 200
                 /\ Len(resp.body.series) = Cardinality(ser)
                 /\ {resp.body.series[i] : i \in 1..Len(resp.body.series)} = ser
                 /\ \A i, j \in 1..Len(resp.body.series) : i < j =>
                       resp.body.series[i].series_number
                          < resp.body.series[j].series_number
                 /\ resp.body.report = <<>> <=> rep = {}
                 /\ resp.body.report # <<>> =>
                       /\ resp.body.report[1] \in rep
                       /\ \A x \in rep :
                             x.created_at <= resp.body.report[1].created_at

\* a study of two series and two reports created at different times was returned
C10_Witness ==
    /\ resp.op = "get_study" /\ resp.status = 200
    /\ Len(resp.body.series) = 2
    /\ \E x, y \in reports : /\ x.study_id = resp.study_id
                             /\ y.study_id = resp.study_id
                             /\ x.created_at < y.created_at

\* C11: an import with a valid token whose file does not parse, is not a list, or
\* holds a row that is no JSON object answers 400 and leaves the patients table
\* (and every other table) as it was, rows read before the failure included.
C11_ImportFailureRollsBack ==
    [][ (resp'.op = "import" /\ resp'.token \in DOMAIN SESSIONS
         /\ (\/ resp'.doc.kind # "list"
             \/ \E i \in 1..Len(resp'.doc.rows) : ~resp'.doc.rows[i].dict))
          => /\ resp'.status = 400
             /\ patients' = patients
             /\ UNCHANGED <<orders, studies, series, reports>> ]_vars

\* an import whose first row is a patient and whose second row is no object was
\* refused, over a table that an earlier import has filled
C11_Witness ==
    /\ resp.op = "import" /\ resp.status = 400
    /\ resp.doc.kind = "list" /\ Len(resp.doc.rows) = 2
    /\ resp.doc.rows[1].dict /\ ~resp.doc.rows[2].dict
    /\ Cardinality(patients) = 1

\* C12: no two study rows have the same accession number.
C12_AccessionUnique ==
    \A s, u \in studies : s.study_id # u.study_id => s.accession # u.accession

\* C13 as claimed: every stored token maps to a key of the credential table, no
\* two stored tokens map to the same username, and an /api call is refused
\* exactly when its token is not in the store.
C13_SessionsOneToOne ==
    /\ \A t \in DOMAIN SESSIONS : SESSIONS[t] \in DOMAIN USERS
    /\ \A t, u \in DOMAIN SESSIONS : t # u => SESSIONS[t] # SESSIONS[u]
    /\ resp.op \in ApiOps => (resp.status = 401 <=> resp.token \notin DOMAIN SESSIONS)

\* C13 as amended: every stored token maps to a key of the credential table
\* (several tokens may map to the same username), and an /api call is refused
\* exactly when its token is not in the store.
C13_SessionStore ==
    /\ \A t \in DOMAIN SESSIONS : SESSIONS[t] \in DOMAIN USERS
    /\ resp.op \in ApiOps => (resp.status = 401 <=> resp.token \notin DOMAIN SESSIONS)

\* two logins of david hold a token each, and a call with the second was served
C13_Witness ==
    /\ DOMAIN SESSIONS = {1, 2}
    /\ SESSIONS[1] = david /\ SESSIONS[2] = david
    /\ resp.op \in ApiOps /\ resp.token = 2 /\ resp.status # 401

\* C14: no operation modifies or deletes a patient, order, study or series row;
\* create report and update report leave every study, its report_status
\* included, as it was.
C14_NonReportRowsImmutable ==
    [][ /\ patients \subseteq patients'
        /\ orders \subseteq orders'
        /\ studies \subseteq studies'
        /\ series \subseteq series'
        /\ resp'.op \in {"create_report", "update_report"}
              => UNCHANGED <<patients, orders, studies, series>> ]_vars

\* an update gave sign_status Final to a report of a study that stays Unreported
C14_Witness ==
    /\ resp.op = "update_report" /\ resp.status = 200
    /\ \E r \in reports, s \in studies :
          /\ r.report_id = resp.report_id /\ r.study_id = s.study_id
          /\ r.sign_status = "Final" /\ s.report_status = "Unreported"

\* C15: a token that was issued and is no longer stored is never stored again
\* and every /api call with it is refused; login issues a token never issued
\* before; a stored token stays stored with its username, and is accepted by
\* every /api call, until a logout of that very token.
C15_RevokedStaysRevoked ==
    [][ /\ \A t \in 1..issued : t \notin DOMAIN SESSIONS =>
              /\ t \notin DOMAIN SESSIONS'
              /\ (resp'.op \in ApiOps /\ resp'.token = t) => resp'.status = 401
        /\ (resp'.op = "login" /\ resp'.status = 200 /\ resp' # resp)
              => resp'.body.token \notin 1..issued
        /\ \A t \in DOMAIN SESSIONS :
              /\ \/ resp'.op = "logout" /\ resp'.token = t
                 \/ t \in DOMAIN SESSIONS' /\ SESSIONS'[t] = SESSIONS[t]
              /\ (resp'.op \in ApiOps /\ resp'.token = t) => resp'.status # 401
      ]_vars

\* token 1 was logged out, then a second login succeeded, and a later call with
\* token 1 was refused while token 2 is stored
C15_Witness ==
    /\ issued = 2 /\ DOMAIN SESSIONS = {2}
    /\ resp.op \in ApiOps /\ resp.token = 1 /\ resp.status = 401
====
